---- MODULE Spec2Model ----
\* Model of mirage/grism_tso_simulator.py (GrismTSO): the frame classifier,
\* the TSO catalog time-window check, the lightcurve time axis, the file
\* splitting and the frame-synthesis loop of seed_builder.
\* Each run exercises one of these operations ("mode"), starting from inputs
\* drawn from small sets.
EXTENDS Integers, Sequences, FiniteSets, TLC

\* ---------------------------------------------------------------- bounds
MaxRows == 2
NWl == 2
MaxTime == 3
MaxInts == 2
MaxGroups == 3
MaxNFrame == 2

\* flux ratios in hundredths; 100 is a ratio of exactly 1.0
One == 100
FluxVals == {One, 99, 50}

Modes == {"classify", "catalog", "lightcurve", "synth", "config", "frame", "loop", "import"}

VARIABLES mode,
          \* find_transit_frames
          ftf_lc, ftf_pc, transit, no_transit,
          \* tso_catalog_check
          cat, exp_time, cc_pc, warned,
          \* make_lightcurves (time axis)
          ml_start, ml_end, ml_ft, ml_time, ml_den, ml_pc, ml_build, ml_qty,
          \* file_splitting / seed_builder
          numints, numgroups, nframe, numresets, budget,
          split_seed, int_idx, grp_idx, fs_pc,
          ints_per_segment, groups_per_segment, sb_frames, sb_parts, sb_pc,
          \* GrismTSO.__init__
          cfg_env, cfg_orders, cfg_instr, cfg_pc,
          \* one frame of the synthesis loop
          fr_lc, fr_ctr, fr_prevsig, fr_ft, fr_val, fr_sig, fr_interp, fr_pc,
          \* import of the module
          imp_pc,
          \* create_seed's synthesis loop (lines 218-283)
          lp_int, lp_grp, lp_file, lp_lc, lp_nres, lp_st

cfgVars == <<cfg_env, cfg_orders, cfg_instr, cfg_pc>>
frVars == <<fr_lc, fr_ctr, fr_prevsig, fr_ft, fr_val, fr_sig, fr_interp, fr_pc>>
lpVars == <<lp_int, lp_grp, lp_file, lp_lc, lp_nres, lp_st>>

vars == <<mode, ftf_lc, ftf_pc, transit, no_transit,
          cat, exp_time, cc_pc, warned,
          ml_start, ml_end, ml_ft, ml_time, ml_den, ml_pc, ml_build, ml_qty,
          numints, numgroups, nframe, numresets, budget,
          split_seed, int_idx, grp_idx, fs_pc,
          ints_per_segment, groups_per_segment, sb_frames, sb_parts, sb_pc,
          cfgVars, frVars, imp_pc, lpVars>>

Range(s) == {s[i] : i \in DOMAIN s}

RECURSIVE SumSeqI(_)
SumSeqI(s) == IF s = <<>> THEN 0 ELSE Head(s) + SumSeqI(Tail(s))

\* ================================================= find_transit_frames
\* np.any(lc == 1.0) in place of np.all
AnyOne(r) == \E w \in DOMAIN r : r[w] = One

\* np.all(lc == 1.0)
AllOne(r) == \A w \in DOMAIN r : r[w] = One

RECURSIVE FTFLoop(_, _, _, _)
FTFLoop(lc, row, tr, nt) ==
    IF row > Len(lc) THEN <<tr, nt>>
    ELSE IF AllOne(lc[row])
         THEN FTFLoop(lc, row + 1, tr, Append(nt, row - 1))
         ELSE FTFLoop(lc, row + 1, Append(tr, row - 1), nt)

\* loop starting at row 1 instead of row 0
FindTransitFramesSkipFirst(lc) == FTFLoop(lc, 2, <<>>, <<>>)

\* returns <<transit, no_transit>> (0-based row indices)
FindTransitFrames(lc) == FTFLoop(lc, 1, <<>>, <<>>)

Tables == UNION {[1..n -> [1..NWl -> FluxVals]] : n \in 0..MaxRows}

DefaultLc == <<>>

FindTransitFramesAct ==
    /\ mode = "classify"
    /\ ftf_pc = "idle"
    /\ LET res == FindTransitFrames(ftf_lc) IN
         /\ transit' = res[1]
         /\ no_transit' = res[2]
    /\ ftf_pc' = "done"
    /\ UNCHANGED <<mode, ftf_lc, cat, exp_time, cc_pc, warned,
                   ml_start, ml_end, ml_ft, ml_time, ml_den, ml_pc, ml_build, ml_qty,
                   numints, numgroups, nframe, numresets, budget,
                   split_seed, int_idx, grp_idx, fs_pc,
                   ints_per_segment, groups_per_segment, sb_frames, sb_parts, sb_pc>>
    /\ UNCHANGED <<cfgVars, frVars, imp_pc, lpVars>>


\* ================================================= tso_catalog_check
\* catalog window and exposure time in seconds
Times == 0..MaxTime
UnitStrs == {"second", "seconds", "Seconds", "minutes", "hours", "days"}
\* time_unit_str.lower() in ['seconds', 'minutes', 'hours', 'days']
PluralUnits == {"seconds", "minutes", "hours", "days"}
\* str.lower() on the unit strings of UnitStrs
LowerUnit(u) == IF u = "Seconds" THEN "seconds" ELSE u
\* time_unit_str[0:-1] on the unit strings of UnitStrs
DropLast(u) == CASE u = "second" -> "secon"
                 [] u = "seconds" -> "second"
                 [] u = "Seconds" -> "Second"
                 [] u = "minutes" -> "minute"
                 [] u = "hours" -> "hour"
                 [] u = "days" -> "day"
\* lines 604-606: the last character is dropped from a plural unit name
StripUnit(u) == IF LowerUnit(u) \in PluralUnits THEN DropLast(u) ELSE u
\* astropy unit names accepted by u.Unit (case-sensitive)
AstropyUnits == {"second", "minute", "hour", "day"}

\* The unit string is normalised in place (line 606); u.Unit rejects a name
\* astropy does not know (line 607, ValueError); otherwise line 608 reads
\* tso_catalog, a local of create_seed that does not exist in this static
\* method, and raises NameError.
TsoCatalogCheck ==
    /\ mode = "catalog"
    /\ cc_pc = "idle"
    /\ cat' = [cat EXCEPT !.units = StripUnit(cat.units)]
    /\ cc_pc' = IF StripUnit(cat.units) \in AstropyUnits THEN "NameError"
                 ELSE "ValueError_unit"
    /\ UNCHANGED <<mode, ftf_lc, ftf_pc, transit, no_transit, exp_time, warned,
                   ml_start, ml_end, ml_ft, ml_time, ml_den, ml_pc, ml_build, ml_qty,
                   numints, numgroups, nframe, numresets, budget,
                   split_seed, int_idx, grp_idx, fs_pc,
                   ints_per_segment, groups_per_segment, sb_frames, sb_parts, sb_pc>>
    /\ UNCHANGED <<cfgVars, frVars, imp_pc, lpVars>>

\* ================================================= make_lightcurves
\* frame times in tenths of a second
FrameTimes == {5, 10, 20}

\* np.linspace(start, end, num): num evenly spaced samples; sample k is
\* start + k * (end - start) / (num - 1), kept as numerator over LinDen(num)
LinDen(num) == IF num > 1 THEN num - 1 ELSE 1
Linspace(start, end, num) ==
    [k \in 1..num |-> start * LinDen(num) + (k - 1) * (end - start)]

\* numpy builds: >= 1.24 (no np.float), 1.18-1.23 (linspace rejects a float
\* num), <= 1.17 (linspace truncates a float num)
Builds == {"np124", "np118", "np117"}

\* Line 403 uses np.float (AttributeError on numpy >= 1.24); line 414 calls
\* .to on Inferior_conjunction (AttributeError unless the catalog holds
\* Quantities); time = np.linspace(start_time, end_time, frame_time) passes the
\* float frame time as the sample count (TypeError on numpy 1.18-1.23,
\* truncated on older numpy); line 424 then raises NameError (transmissions).
MakeLightcurves ==
    /\ mode = "lightcurve"
    /\ ml_pc = "idle"
    /\ IF ml_build = "np124"
         THEN /\ ml_pc' = "AttributeError_403"
              /\ UNCHANGED <<ml_time, ml_den>>
       ELSE IF ~ml_qty
         THEN /\ ml_pc' = "AttributeError_414"
              /\ UNCHANGED <<ml_time, ml_den>>
       ELSE IF ml_build = "np118"
         THEN /\ ml_pc' = "TypeError"
              /\ UNCHANGED <<ml_time, ml_den>>
       ELSE /\ ml_time' = Linspace(ml_start, ml_end, ml_ft \div 10)
            /\ ml_den' = LinDen(ml_ft \div 10)
            /\ ml_pc' = "NameError"
    /\ UNCHANGED <<mode, ftf_lc, ftf_pc, transit, no_transit,
                   cat, exp_time, cc_pc, warned, ml_start, ml_end, ml_ft, ml_build, ml_qty,
                   numints, numgroups, nframe, numresets, budget,
                   split_seed, int_idx, grp_idx, fs_pc,
                   ints_per_segment, groups_per_segment, sb_frames, sb_parts, sb_pc>>
    /\ UNCHANGED <<cfgVars, frVars, imp_pc, lpVars>>


\* ================================================= file splitting
\* data-volume budgets, in frames of one seed image
Budgets == {1, 2, 100}

\* mirage.utils get_frame_count_info (no skipped frames):
\* frames per group and frames per integration
FramesPerGroup(nf) == nf
FramesPerInt(ng, nf) == ng * FramesPerGroup(nf)

\* boundaries 0, step, 2*step, ... ending at total
RECURSIVE BoundariesFrom(_, _, _)
BoundariesFrom(cur, total, step) ==
    IF cur + step >= total THEN <<total>>
    ELSE <<cur + step>> \o BoundariesFrom(cur + step, total, step)
Boundaries(total, step) == <<0>> \o BoundariesFrom(0, total, step)

\* mirage.utils find_file_splits: returns <<split, group boundaries,
\* integration boundaries>>, greedily filling each chunk up to the budget,
\* splitting within an integration when one integration exceeds it.
FindFileSplits(groups, ints, bud) ==
    IF groups * ints <= bud
      THEN <<FALSE, <<0, groups>>, <<0, ints>>>>
    ELSE IF groups <= bud
      THEN <<TRUE, <<0, groups>>, Boundaries(ints, bud \div groups)>>
    ELSE <<TRUE, Boundaries(groups, bud), Boundaries(ints, 1)>>

\* find_file_splits is never imported: line 296 raises NameError before the
\* assignment, so split_seed, grp_segment_indexes and int_segment_indexes
\* stay unset (and file_segment_indexes too).
FileSplitting ==
    /\ mode = "synth"
    /\ fs_pc' = "NameError"
    /\ UNCHANGED <<mode, ftf_lc, ftf_pc, transit, no_transit,
                   cat, exp_time, cc_pc, warned,
                   ml_start, ml_end, ml_ft, ml_time, ml_den, ml_pc, ml_build, ml_qty,
                   numints, numgroups, nframe, numresets, budget,
                   split_seed, int_idx, grp_idx, ints_per_segment, groups_per_segment, sb_frames, sb_parts, sb_pc>>
    /\ UNCHANGED <<cfgVars, frVars, imp_pc, lpVars>>

\* ================================================= seed_builder
\* a[:-1] - a[1:]
Diffs(a) == [k \in 1..(Len(a) - 1) |-> a[k] - a[k + 1]]

\* baseline TSO countrate (no_transit_signal in create_seed)
BaseSig == 100
\* frame_only_signal not yet bound
NoSig == -1

\* seed_builder(not_in_transit, in_transit) on an instance whose boundary
\* attributes are unset (file_splitting not called, or raised first): AttributeError at line
\* 491. With the attributes set: extents a[:-1] - a[1:] (lines 491-492);
\* np.zeros((int_dim, grp_dim, ...)) at line 504 raises ValueError on a
\* negative extent; with positive extents the first frame reads
\* background_dispersed / lightcurves, undefined in seed_builder (NameError at
\* 520 / 526) before anything is written; with an empty chunk line 546 reads
\* the unset self.file_segment_indexes.
SeedBuilder ==
    /\ mode = "synth"
    /\ sb_pc = "idle"
    /\ IF int_idx = <<>>
         THEN /\ sb_pc' = "AttributeError_491"
              /\ UNCHANGED <<ints_per_segment, groups_per_segment>>
         ELSE LET ips == Diffs(int_idx)
                  gps == Diffs(grp_idx)
              IN /\ ints_per_segment' = ips
                 /\ groups_per_segment' = gps
                 /\ sb_pc' = IF ips[1] < 0 \/ gps[1] < 0 THEN "ValueError"
                              ELSE IF ips[1] > 0 /\ gps[1] > 0 THEN "NameError"
                              ELSE "AttributeError_546"
    /\ UNCHANGED <<mode, ftf_lc, ftf_pc, transit, no_transit,
                   cat, exp_time, cc_pc, warned,
                   ml_start, ml_end, ml_ft, ml_time, ml_den, ml_pc, ml_build, ml_qty,
                   numints, numgroups, nframe, numresets, budget,
                   split_seed, int_idx, grp_idx, fs_pc, sb_frames, sb_parts>>
    /\ UNCHANGED <<cfgVars, frVars, imp_pc, lpVars>>


\* ================================================= GrismTSO.__init__
\* values of the orders argument: ["+1"], ["+2"], ["+1", "+2"], ["+2", "+1"],
\* ["+3"], None
OrderChoices == {"+1", "+2", "+1,+2", "+2,+1", "+3", "None"}
Instruments == {"nircam", "niriss", "miri"}

\* param_checks: self.orders not in [["+1"], ["+2"], ["+1", "+2"], None]
OrdersOK(o) == o \in {"+1", "+2", "+1,+2", "None"}

\* GrismTSO defines neither find_param_info (line 111) nor check_inputs
\* (line 114)
HasInitHelpers == FALSE

\* __init__: MIRAGE_DATA check (lines 80-87), param_checks (line 105), then
\* self.find_param_info() and self.check_inputs() (lines 111-114)
Construct ==
    /\ mode = "config"
    /\ cfg_pc = "idle"
    /\ cfg_pc' = IF ~cfg_env THEN "ValueError_env"
                 ELSE IF ~OrdersOK(cfg_orders) THEN "ValueError_orders"
                 ELSE IF ~HasInitHelpers THEN "AttributeError"
                 ELSE "constructed"
    /\ UNCHANGED <<mode, ftf_lc, ftf_pc, transit, no_transit,
                   cat, exp_time, cc_pc, warned,
                   ml_start, ml_end, ml_ft, ml_time, ml_den, ml_pc, ml_build, ml_qty,
                   numints, numgroups, nframe, numresets, budget,
                   split_seed, int_idx, grp_idx, fs_pc,
                   ints_per_segment, groups_per_segment, sb_frames, sb_parts, sb_pc,
                   cfg_env, cfg_orders, cfg_instr, frVars, imp_pc, lpVars>>


\* ================================================= one frame of the loop
\* background dispersed countrate (background_dispersed.final)
BgSig == 30
FrameDurations == {1, 2}
\* wavelength grid of the lightcurve columns, in tenths of a micron
WlGrid == [w \in 1..NWl |-> 10 + 5 * w]
\* time axis returned with the lightcurves: one sample per row, one frame apart
LcTimes(lc) == [k \in 1..Len(lc) |-> k - 1]

\* scipy interp1d(x, y) (linear): x and y of equal length, at least 2 points
InterpOK(x, y) == Len(x) = Len(y) /\ Len(x) >= 2

\* disperse_all_from_cache(lc_interp) then grism_seed_object.final: the
\* baseline TSO countrate scaled by the mean flux ratio of the scale function
Recompute(interp) == (BaseSig * SumSeqI(interp.y)) \div (One * Len(interp.y))

\* no interpolator built for the frame
NoInterp == [x |-> <<>>, y |-> <<>>]

\* lines 245-257 for total_frame_counter c, with the transit/unaltered lists
\* of lc (line 193) and prevsig the frame_only_signal bound by an earlier frame
\* (NoSig if none): the frame_only_signal of the frame, or the exception;
\* with no matching branch the previous frame_only_signal is reused
\* (UnboundLocalError if there is none)
FrameSigOf(lc, c, ft, prevsig) ==
    LET cls == FindTransitFrames(lc) IN
    IF c \in Range(cls[2])
    THEN [st |-> "ok", sig |-> (BgSig + BaseSig) * ft, interp |-> NoInterp]
    ELSE IF c \in Range(cls[1])
    THEN LET ip == [x |-> LcTimes(lc), y |-> lc[c + 1]] IN
         IF InterpOK(ip.x, ip.y)
         THEN [st |-> "ok", sig |-> (BgSig + Recompute(ip)) * ft, interp |-> ip]
         ELSE [st |-> "ValueError", sig |-> prevsig, interp |-> ip]
    ELSE IF prevsig = NoSig
    THEN [st |-> "UnboundLocalError", sig |-> prevsig, interp |-> NoInterp]
    ELSE [st |-> "ok", sig |-> prevsig, interp |-> NoInterp]

\* frame_only_signal values an earlier frame of the same run can have bound:
\* none, or the signal of a lightcurve row at a counter value not past the
\* current one (total_frame_counter never decreases) that yields one
PrevSigsFor(lc, ctr, ft) ==
    {NoSig} \cup {FrameSigOf(lc, c, ft, NoSig).sig :
                    c \in {d \in 0..(ctr - 1) : FrameSigOf(lc, d, ft, NoSig).st = "ok"}}

\* lines 245-263: one frame; classify total_frame_counter, build
\* frame_only_signal and write previous_frame + frame_only_signal
FrameStep ==
    /\ mode = "frame"
    /\ fr_pc = "idle"
    /\ LET r == FrameSigOf(fr_lc, fr_ctr, fr_ft, fr_prevsig) IN
         /\ fr_interp' = r.interp
         /\ IF r.st = "ok"
              THEN /\ fr_sig' = r.sig
                   /\ fr_val' = fr_val + r.sig
                   /\ fr_pc' = "written"
              ELSE /\ fr_pc' = r.st
                   /\ UNCHANGED <<fr_sig, fr_val>>
    /\ UNCHANGED <<mode, ftf_lc, ftf_pc, transit, no_transit,
                   cat, exp_time, cc_pc, warned,
                   ml_start, ml_end, ml_ft, ml_time, ml_den, ml_pc, ml_build, ml_qty,
                   numints, numgroups, nframe, numresets, budget,
                   split_seed, int_idx, grp_idx, fs_pc,
                   ints_per_segment, groups_per_segment, sb_frames, sb_parts, sb_pc,
                   cfgVars, fr_lc, fr_ctr, fr_prevsig, fr_ft, imp_pc, lpVars>>

\* ================================================= create_seed's loop
\* create_seed's own copy of the loop (lines 218-283), where
\* background_dispersed, no_transit_signal, lightcurves, times and the
\* transit/unaltered lists are bound (lines 161-197), run on instances whose
\* int_segment_indexes, grp_segment_indexes and file_segment_indexes are set.
\* Boundaries with positive extents a[:-1] - a[1:] are decreasing ones; with
\* increasing ones np.zeros at line 231 raises (SeedBuilder, line 504).
LoopIntIdxs == {<<1, 0>>, <<2, 0>>, <<2, 1, 0>>}
LoopGrpIdxs == {<<1, 0>>, <<2, 0>>, <<2, 1, 0>>}
LoopFileIdxs == {<<0, 2>>, <<0, 1, 2>>}
\* lightcurves of 1 or 2 rows, each row one flux ratio at every wavelength
LoopLcs == UNION {{[r \in 1..n |-> [w \in 1..NWl |-> v[r]]] : v \in [1..n -> {One, 50}]} :
                  n \in 1..2}
\* self.frametime
LoopFrameTime == 1

\* local state of create_seed from line 224 on: total_frame_counter,
\* frame_only_signal, the frames written (segment_seed[integ, frame] for chunk
\* (i, j)), the chunks completed with their (segment, part) numbers, the reset
\* advances, previous_segment and segment_part_number
LoopStart == [pc |-> "running", ctr |-> 0, sig |-> NoSig, writes |-> <<>>,
              parts |-> <<>>, resets |-> <<>>, prevseg |-> 1, partno |-> 0]

\* lines 277-284 after chunk (i, j): np.where(int_end <= file_segment_indexes)[0][0]
\* (IndexError when empty), segment_part_number, segment_file_name; the line
\* after it is prose and no writer is called, so the buffer is not saved
NumberChunk(cf, st, i) ==
    LET int_end == cf.int_idx[i + 1]
        ks == {k \in 1..Len(cf.file_idx) : int_end <= cf.file_idx[k]}
    IN IF ks = {} THEN [st EXCEPT !.pc = "IndexError"]
       ELSE LET seg == (CHOOSE k \in ks : \A m \in ks : k <= m) - 1
                part == IF seg = st.prevseg THEN st.partno + 1 ELSE 1
            IN [st EXCEPT !.prevseg = seg, !.partno = part,
                          !.parts = Append(@, [seg |-> seg, part |-> part, saved |-> FALSE])]

\* the nested loops of lines 226-272: chunk i of the integrations, chunk j of
\* the frames, integration integ of the chunk, frame of the chunk;
\* previous_frame is zeroed at each integration of each chunk (line 238) and
\* total_frame_counter advances only by numresets after each integration of
\* each chunk (line 268)
RECURSIVE LoopRun(_, _, _, _, _, _, _)
LoopRun(cf, st, i, j, integ, frame, prev) ==
    LET ips == Diffs(cf.int_idx)
        gps == Diffs(cf.grp_idx)
    IN
    IF st.pc # "running" THEN st
    ELSE IF i > Len(ips) THEN [st EXCEPT !.pc = "done"]
    ELSE IF j > Len(gps) THEN LoopRun(cf, st, i + 1, 1, 0, 0, 0)
    ELSE IF integ >= ips[i] THEN LoopRun(cf, NumberChunk(cf, st, i), i, j + 1, 0, 0, 0)
    ELSE IF frame >= gps[j]
    THEN LoopRun(cf, [st EXCEPT !.ctr = @ + cf.nres,
                                !.resets = Append(@, [i |-> i, j |-> j, integ |-> integ])],
                 i, j, integ + 1, 0, 0)
    ELSE LET r == FrameSigOf(cf.lc, st.ctr, LoopFrameTime, st.sig) IN
         IF r.st # "ok" THEN [st EXCEPT !.pc = r.st]
         ELSE LoopRun(cf, [st EXCEPT !.sig = r.sig,
                                     !.writes = Append(@, [i |-> i, j |-> j, integ |-> integ,
                                                           frame |-> frame, ctr |-> st.ctr,
                                                           sig |-> r.sig, val |-> prev + r.sig])],
                      i, j, integ, frame + 1, prev + r.sig)

CreateSeedLoop ==
    /\ mode = "loop"
    /\ lp_st.pc = "idle"
    /\ lp_st' = LoopRun([int_idx |-> lp_int, grp_idx |-> lp_grp, file_idx |-> lp_file,
                         lc |-> lp_lc, nres |-> lp_nres],
                        LoopStart, 1, 1, 0, 0, 0)
    /\ UNCHANGED <<mode, ftf_lc, ftf_pc, transit, no_transit,
                   cat, exp_time, cc_pc, warned,
                   ml_start, ml_end, ml_ft, ml_time, ml_den, ml_pc, ml_build, ml_qty,
                   numints, numgroups, nframe, numresets, budget,
                   split_seed, int_idx, grp_idx, fs_pc,
                   ints_per_segment, groups_per_segment, sb_frames, sb_parts, sb_pc,
                   cfgVars, frVars, imp_pc, lp_int, lp_grp, lp_file, lp_lc, lp_nres>>

\* ================================================= module import
\* import mirage.grism_tso_simulator: the bare prose lines 216, 233-234, 284,
\* 506-507 and 557 make the module a SyntaxError; the other operations model
\* the bodies of its functions as written, taken on their own.
ImportModule ==
    /\ mode = "import"
    /\ imp_pc = "idle"
    /\ imp_pc' = "SyntaxError"
    /\ UNCHANGED <<mode, ftf_lc, ftf_pc, transit, no_transit,
                   cat, exp_time, cc_pc, warned,
                   ml_start, ml_end, ml_ft, ml_time, ml_den, ml_pc, ml_build, ml_qty,
                   numints, numgroups, nframe, numresets, budget,
                   split_seed, int_idx, grp_idx, fs_pc,
                   ints_per_segment, groups_per_segment, sb_frames, sb_parts, sb_pc,
                   cfgVars, frVars, lpVars>>

\* ================================================= specification
ClassifyInit ==
    /\ ftf_lc \in (IF mode = "classify" THEN Tables ELSE {DefaultLc})
    /\ ftf_pc = "idle" /\ transit = <<>> /\ no_transit = <<>>

Init ==
    /\ mode \in Modes
    /\ ClassifyInit
    /\ cat \in (IF mode = "catalog"
                 THEN [start : Times, end : Times, conj : Times, units : UnitStrs]
                 ELSE {[start |-> 0, end |-> 0, conj |-> 0, units |-> "second"]})
    /\ exp_time \in (IF mode = "catalog" THEN 1..MaxTime ELSE {0})
    /\ cc_pc = "idle" /\ warned = FALSE
    /\ ml_start \in (IF mode = "lightcurve" THEN Times ELSE {0})
    /\ ml_end \in (IF mode = "lightcurve" THEN ml_start..MaxTime ELSE {0})
    /\ ml_ft \in (IF mode = "lightcurve" THEN FrameTimes ELSE {10})
    /\ ml_time = <<>> /\ ml_den = 1 /\ ml_pc = "idle"
    /\ ml_build \in (IF mode = "lightcurve" THEN Builds ELSE {"np117"})
    /\ ml_qty \in (IF mode = "lightcurve" THEN BOOLEAN ELSE {TRUE})
    /\ numints \in (IF mode = "synth" THEN 1..MaxInts ELSE {1})
    /\ numgroups \in (IF mode = "synth" THEN 1..MaxGroups ELSE {1})
    /\ nframe \in (IF mode = "synth" THEN 1..MaxNFrame ELSE {1})
    /\ numresets \in (IF mode = "synth" THEN 0..1 ELSE {0})
    /\ budget \in (IF mode = "synth" THEN Budgets ELSE {1})
    /\ fs_pc \in (IF mode = "synth" THEN {"idle", "given"} ELSE {"idle"})
    /\ LET r == FindFileSplits(FramesPerInt(numgroups, nframe), numints, budget) IN
         IF fs_pc = "given"
         THEN split_seed = r[1] /\ grp_idx = r[2] /\ int_idx = r[3]
         ELSE split_seed = FALSE /\ grp_idx = <<>> /\ int_idx = <<>>
    /\ ints_per_segment = <<>> /\ groups_per_segment = <<>>
    /\ sb_frames = <<>> /\ sb_parts = <<>> /\ sb_pc = "idle"
    /\ cfg_env \in (IF mode = "config" THEN BOOLEAN ELSE {TRUE})
    /\ cfg_orders \in (IF mode = "config" THEN OrderChoices ELSE {"+1,+2"})
    /\ cfg_instr \in (IF mode = "config" THEN Instruments ELSE {"nircam"})
    /\ cfg_pc = "idle"
    /\ fr_lc \in (IF mode = "frame" THEN Tables \ {<<>>} ELSE {<<>>})
    /\ fr_ctr \in (IF mode = "frame" THEN 0..Len(fr_lc) ELSE {0})
    /\ fr_ft \in (IF mode = "frame" THEN FrameDurations ELSE {1})
    /\ fr_prevsig \in (IF mode = "frame" THEN PrevSigsFor(fr_lc, fr_ctr, fr_ft) ELSE {NoSig})
    /\ imp_pc = "idle"
    /\ fr_val = 0 /\ fr_sig = 0 /\ fr_interp = NoInterp /\ fr_pc = "idle"
    /\ lp_int \in (IF mode = "loop" THEN LoopIntIdxs ELSE {<<1, 0>>})
    /\ lp_grp \in (IF mode = "loop" THEN LoopGrpIdxs ELSE {<<1, 0>>})
    /\ lp_file \in (IF mode = "loop" THEN LoopFileIdxs ELSE {<<0, 2>>})
    /\ lp_lc \in (IF mode = "loop" THEN LoopLcs ELSE {<<[w \in 1..NWl |-> One]>>})
    /\ lp_nres \in (IF mode = "loop" THEN 0..1 ELSE {0})
    /\ lp_st = [LoopStart EXCEPT !.pc = "idle"]

Next == FindTransitFramesAct \/ TsoCatalogCheck \/ MakeLightcurves
        \/ FileSplitting \/ SeedBuilder \/ Construct
        \/ FrameStep \/ CreateSeedLoop \/ ImportModule

Spec == Init /\ [][Next]_vars

\* ================================================= properties

StrictlyIncreasing(s) == \A i, j \in DOMAIN s : i < j => s[i] < s[j]

RECURSIVE SumSeq(_)
SumSeq(s) == IF s = <<>> THEN 0 ELSE Head(s) + SumSeq(Tail(s))

\* C1: find_transit_frames partitions the row indices [0, rows): every row index
\* is in exactly one of the unaltered and transit lists, nothing else is in
\* them, and each list is increasing.
C1_Partition ==
    ftf_pc = "done" =>
      /\ \A r \in 0..(Len(ftf_lc) - 1) :
            (r \in Range(transit)) # (r \in Range(no_transit))
      /\ Range(transit) \cup Range(no_transit) \subseteq 0..(Len(ftf_lc) - 1)
      /\ StrictlyIncreasing(transit)
      /\ StrictlyIncreasing(no_transit)

C1_Witness ==
    ftf_pc = "done" /\ Len(transit) > 0 /\ Len(no_transit) > 0

\* C2: a row is unaltered iff its flux ratio is exactly 1.0 at every
\* wavelength; a row differing at any single wavelength, by any amount, is a
\* transit row.
C2_ExactOne ==
    ftf_pc = "done" =>
      \A r \in 1..Len(ftf_lc) :
        /\ ((r - 1) \in Range(no_transit) <=> \A w \in 1..NWl : ftf_lc[r][w] = One)
        /\ ((r - 1) \in Range(transit) <=> \E w \in 1..NWl : ftf_lc[r][w] # One)

C2_Witness ==
    /\ ftf_pc = "done"
    /\ \E r \in 1..Len(ftf_lc) :
         /\ Cardinality({w \in 1..NWl : ftf_lc[r][w] = One}) = NWl - 1
         /\ \E w \in 1..NWl : ftf_lc[r][w] = 99
         /\ (r - 1) \in Range(transit)

C4Lc == [r \in 1..6 |-> [w \in 1..NWl |-> IF r <= 3 THEN One ELSE 50]]

C4Scenario ==
    /\ mode = "synth" /\ numints = 2 /\ FramesPerInt(numgroups, nframe) = 3
    /\ numresets = 1 /\ budget = 100

C4_Scenario ==
    (C4Scenario /\ sb_pc # "idle") =>
      /\ FindTransitFrames(C4Lc) = <<<<3, 4, 5>>, <<0, 1, 2>>>>
      /\ Len(sb_frames) = 6
      /\ \A k \in 1..3 : sb_frames[k].integ = 0 /\ sb_frames[k].val = k * sb_frames[1].sig
      /\ \A k \in 4..6 : sb_frames[k].integ = 1 /\ sb_frames[k].ctr \in 3..5
      /\ sb_frames[4].val = sb_frames[4].sig

C6_TimeAxis ==
    (mode = "lightcurve" /\ ml_pc # "idle") =>
      /\ ml_pc = "returned"
      /\ Len(ml_time) = ((ml_end - ml_start) * 10) \div ml_ft
      /\ StrictlyIncreasing(ml_time)

\* C7: tso_catalog_check extends a catalog window shorter than the exposure to
\* at least the exposure time with a warning and no exception (other than the
\* conjunction check), and leaves a long enough window unchanged.
C7_Extend ==
    [][(mode = "catalog" /\ cc_pc = "idle" /\ cc_pc' # "idle") =>
        IF cat.end - cat.start < exp_time
        THEN /\ cc_pc' \in {"returned", "ValueError"}
             /\ warned'
             /\ cat'.end - cat'.start >= exp_time
        ELSE /\ cc_pc' \in {"returned", "ValueError"}
             /\ cat'.start = cat.start /\ cat'.end = cat.end]_vars

\* C8: tso_catalog_check raises a fatal error exactly when the inferior
\* conjunction lies outside [Start_time, End_time] of the (extended) window; a
\* conjunction inside the window never raises.
C8_Conjunction ==
    [][(mode = "catalog" /\ cc_pc = "idle" /\ cc_pc' # "idle") =>
        IF cat'.conj < cat'.start \/ cat'.conj > cat'.end
        THEN cc_pc' = "ValueError"
        ELSE cc_pc' = "returned"]_vars

\* C9: both boundary sequences start at 0, are strictly increasing and end at
\* the integration (or frame) count, and the extents ints_per_segment and
\* groups_per_segment derived from them are positive and sum to that count.
C9_Segmentation ==
    (mode = "synth" /\ sb_pc # "idle") =>
      /\ int_idx # <<>> /\ grp_idx # <<>>
      /\ int_idx[1] = 0 /\ StrictlyIncreasing(int_idx) /\ int_idx[Len(int_idx)] = numints
      /\ grp_idx[1] = 0 /\ StrictlyIncreasing(grp_idx)
      /\ grp_idx[Len(grp_idx)] = FramesPerInt(numgroups, nframe)
      /\ \A k \in DOMAIN ints_per_segment : ints_per_segment[k] > 0
      /\ \A k \in DOMAIN groups_per_segment : groups_per_segment[k] > 0
      /\ SumSeq(ints_per_segment) = numints
      /\ SumSeq(groups_per_segment) = FramesPerInt(numgroups, nframe)

SupportedInstrument(i) == i \in {"nircam", "niriss"}

\* C13: a missing MIRAGE_DATA, an unsupported instrument or an order selection
\* outside {["+1"], ["+2"], ["+1","+2"], None} is fatal: the run raises before
\* any seed, disperser or lightcurve work starts, reporting that configuration
\* error.
C13_ConfigFatal ==
    (mode = "config" /\ cfg_pc # "idle"
     /\ (~cfg_env \/ ~OrdersOK(cfg_orders) \/ ~SupportedInstrument(cfg_instr))) =>
      cfg_pc \in {"ValueError_env", "ValueError_orders", "ValueError_instrument"}

\* C12: a frame whose index is in neither class halts synthesis with a fatal
\* error and gets no value written (no reuse of the previous frame-only signal).
C12_MissFatal ==
    LET cls == FindTransitFrames(fr_lc) IN
    (mode = "frame" /\ fr_pc # "idle"
     /\ fr_ctr \notin Range(cls[1]) \cup Range(cls[2])) =>
      fr_pc # "written"

\* C14: a modulated frame's flux-scale function interpolates its lightcurve row
\* over the wavelength grid and its signal is (background + recomputed TSO)
\* x frame duration; an unaltered frame's is (background + baseline) x duration.
C14_FrameSignal ==
    LET cls == FindTransitFrames(fr_lc) IN
    (mode = "frame" /\ fr_pc # "idle") =>
      /\ fr_ctr \in Range(cls[1]) =>
           /\ fr_pc = "written"
           /\ fr_interp.x = WlGrid /\ fr_interp.y = fr_lc[fr_ctr + 1]
           /\ fr_sig = (BgSig + Recompute(fr_interp)) * fr_ft
      /\ fr_ctr \in Range(cls[2]) =>
           fr_pc = "written" /\ fr_sig = (BgSig + BaseSig) * fr_ft
C17_Coverage ==
    (mode = "synth" /\ sb_pc # "idle") =>
      /\ Len(sb_frames) = numints * FramesPerInt(numgroups, nframe)
      /\ {<<f.integ, f.frame>> : f \in Range(sb_frames)} =
           (0..(numints - 1)) \X (0..(FramesPerInt(numgroups, nframe) - 1))
====
